---------------------------- MODULE Spec2Model ----------------------------
(***************************************************************************)
(* The repository flag-reference scanner (src/lib/scanner/index.ts and its *)
(* pattern registry, src/unnamed/part_003): CodeScanner.scanRepository     *)
(* walks a checked-out tree, scans every recognised source file line by    *)
(* line for a flag key and classifies and scores each occurrence.          *)
(*                                                                         *)
(* fs is the checked-out tree, call the invocations of scanRepository on   *)
(* the shared codeScanner, probe a direct call of one of the registry's    *)
(* exported functions, as the unit tests of src/unnamed/part_001 make,     *)
(* job a scan request of src/app/api/scan/route.ts with its session row    *)
(* and audit log, and the PR requests of src/app/api/pr/create/route.ts    *)
(* for its session.                                                        *)
(*                                                                         *)
(* Strings are TLA+ strings read character by character (SubSeq).  A file  *)
(* content is written as the sequence content.split('\n') of its lines.    *)
(* TLA+ strings cannot hold the character U+0060 (the template-literal     *)
(* quote); BT stands for it.                                               *)
(***************************************************************************)
EXTENDS Integers, Sequences, FiniteSets, TLC

VARIABLES fs, call, probe, job

vars == <<fs, call, probe, job>>

---------------------------------------------------------------------------
(* Strings *)

Min(S) == CHOOSE m \in S : \A n \in S : m <= n

Char(s, i) == SubSeq(s, i, i)

\* String.prototype.includes
Includes(s, t) ==
    \E i \in 1..(Len(s) - Len(t) + 1) : SubSeq(s, i, i + Len(t) - 1) = t

\* String.prototype.endsWith
EndsWith(s, t) ==
    Len(t) <= Len(s) /\ SubSeq(s, Len(s) - Len(t) + 1, Len(s)) = t

\* Array.prototype.join('\n')
RECURSIVE JoinLines(_)
JoinLines(ls) ==
    IF Len(ls) = 0 THEN ""
    ELSE IF Len(ls) = 1 THEN ls[1]
    ELSE ls[1] \o "\n" \o JoinLines(Tail(ls))

DQ == "\""
SQ == "'"
BT == "~"

---------------------------------------------------------------------------
(* Regular expressions.  The registry's expressions are sequences of       *)
(* one-character atoms (a literal, a class, or the dot), at most joined by *)
(* '.*'.  A regex is the sequence of its '.*'-separated segments, a        *)
(* segment the sequence of its atoms.                                      *)

Lit1(ch) == [dot |-> FALSE, cs |-> {ch}]
Class(S) == [dot |-> FALSE, cs |-> S]
Dot == [dot |-> TRUE, cs |-> {}]

\* the atoms of a literal (escaped) piece of regex source
Lit(s) == [i \in 1..Len(s) |-> Lit1(Char(s, i))]

\* '.' matches every character but a line terminator
AtomMatches(a, ch) == IF a.dot THEN ch # "\n" ELSE ch \in a.cs

\* where segment atoms matches in s, leftmost first, at 0-based index >= from
SegmentHits(atoms, s, from) ==
    { i \in from..(Len(s) - Len(atoms)) :
        \A j \in 1..Len(atoms) : AtomMatches(atoms[j], Char(s, i + j)) }

\* RegExp.prototype.exec of a one-segment regex on s, started at lastIndex:
\* the index of the leftmost match (match.index), -1 for null
RegexExec(re, s, lastIndex) ==
    LET hits == SegmentHits(re[1], s, lastIndex)
    IN  IF hits = {} THEN -1 ELSE Min(hits)

\* RegExp.prototype.test of a regex without the g flag on a newline-free s
RECURSIVE SegsMatchFrom(_, _, _)
SegsMatchFrom(segs, s, from) ==
    IF segs = <<>> THEN TRUE
    ELSE LET hits == SegmentHits(Head(segs), s, from)
         IN  hits # {} /\ SegsMatchFrom(Tail(segs), s, Min(hits) + Len(Head(segs)))

RegexTest(re, s) == SegsMatchFrom(re, s, 0)

---------------------------------------------------------------------------
(* The language profile registry (src/unnamed/part_003) *)

Languages == <<"typescript", "python", "java", "go">>

LangIds == {Languages[i] : i \in 1..Len(Languages)}

extensions(lang) ==
    CASE lang = "typescript" -> <<".ts", ".tsx", ".js", ".jsx">>
      [] lang = "python"     -> <<".py">>
      [] lang = "java"       -> <<".java">>
      [] lang = "go"         -> <<".go">>

sdkImports(lang) ==
    CASE lang = "typescript" ->
           << <<Lit("from ") \o <<Class({SQ, DQ})>> \o Lit("launchdarkly-js-client-sdk")
                 \o <<Class({SQ, DQ})>> >>,
              <<Lit("from ") \o <<Class({SQ, DQ})>> \o Lit("launchdarkly-node-server-sdk")
                 \o <<Class({SQ, DQ})>> >>,
              <<Lit("require(") \o <<Class({SQ, DQ})>> \o Lit("launchdarkly-")>> >>
      [] lang = "python" ->
           << <<Lit("import ldclient")>>, <<Lit("from ldclient")>> >>
      [] lang = "java" ->
           << <<Lit("import com.launchdarkly.")>> >>
      [] lang = "go" ->
           << <<Lit("import"), Lit("\"github.com/launchdarkly/")>> >>

\* The flag key is pasted into the regex source unescaped: a '.' of the key
\* is the dot atom and a '(' opens a group.  The keys of this model are made
\* of letters, digits, '_', '-', '.' and '('.
KeyAtoms(key) ==
    [i \in 1..Len(key) |-> IF Char(key, i) = "." THEN Dot ELSE Lit1(Char(key, i))]

\* new RegExp(source) throws a SyntaxError on an unterminated group
KeyCompiles(key) == ~Includes(key, "(")

Call(name, quotes, key) ==
    <<Lit(name) \o <<Class(quotes)>> \o KeyAtoms(key) \o <<Class(quotes)>> >>

\* Fallback with the single quote as the only quote
FallbackSingleQuoted(quotes, key) ==
    << <<Class({SQ})>> \o KeyAtoms(key) \o <<Class({SQ})>> >>


Fallback(quotes, key) ==
    << <<Class(quotes)>> \o KeyAtoms(key) \o <<Class(quotes)>> >>

flagCallPatterns(lang, key) ==
    CASE lang = "typescript" ->
           << Call(".variation(", {SQ, DQ, BT}, key),
              Call(".boolVariation(", {SQ, DQ, BT}, key),
              Call(".jsonVariation(", {SQ, DQ, BT}, key),
              Fallback({SQ, DQ, BT}, key) >>
      [] lang = "python" ->
           << Call(".variation(", {SQ, DQ}, key),
              Call(".variation_detail(", {SQ, DQ}, key),
              Fallback({SQ, DQ}, key) >>
      [] lang = "java" ->
           << Call(".boolVariation(", {DQ}, key),
              Call(".stringVariation(", {DQ}, key),
              Fallback({DQ}, key) >>
      [] lang = "go" ->
           << Call(".BoolVariation(", {DQ}, key),
              Call(".StringVariation(", {DQ}, key),
              Fallback({DQ}, key) >>

NoLanguage == "null"

\* detectLanguage with includes for endsWith
detectLanguageAnywhere(filePath) ==
    LET hit == { i \in 1..Len(Languages) :
                   \E e \in 1..Len(extensions(Languages[i])) :
                       Includes(filePath, extensions(Languages[i])[e]) }
    IN  IF hit = {} THEN NoLanguage ELSE Languages[Min(hit)]

\* the first profile, in registry order, one of whose extensions ends the path
detectLanguage(filePath) ==
    LET hit == { i \in 1..Len(Languages) :
                   \E e \in 1..Len(extensions(Languages[i])) :
                       EndsWith(filePath, extensions(Languages[i])[e]) }
    IN  IF hit = {} THEN NoLanguage ELSE Languages[Min(hit)]

\* LANGUAGE_PATTERNS is an object literal: LANGUAGE_PATTERNS[language] is
\* undefined for a string that names no property, and the truthy inherited
\* value for a name of Object.prototype, which has no sdkImports
InheritedKeys == {"constructor", "toString", "valueOf", "hasOwnProperty", "__proto__"}

\* line 74 throws a TypeError: pattern.sdkImports is undefined
hasSDKImportThrows(lang) == lang \in InheritedKeys

\* content is the sequence of its lines; no SDK-import regex matches a '\n'
hasSDKImport(content, lang) ==
    IF lang \notin LangIds THEN FALSE
    ELSE \E r \in 1..Len(sdkImports(lang)) :
            \E l \in 1..Len(content) : RegexTest(sdkImports(lang)[r], content[l])

---------------------------------------------------------------------------
(* The file scanner (src/lib/scanner/index.ts) *)

IGNORE_DIRS == {"node_modules", ".git", "dist", "build", ".next", "coverage", "out"}

MAX_FILE_SIZE == 1048576

\* determineMatchType with the configuration tokens tested first
determineMatchTypeConfigFirst(line, hasSDK) ==
    IF Includes(line, "config") \/ Includes(line, "Config") \/ Includes(line, "FLAG")
    THEN "config"
    ELSE IF Includes(line, ".variation") \/ Includes(line, "Variation") THEN "sdk_call"
    ELSE IF Includes(line, "test") \/ Includes(line, "Test") \/ Includes(line, "spec")
         THEN "test"
    ELSE "string_literal"


determineMatchType(line, hasSDK) ==
    IF Includes(line, ".variation") \/ Includes(line, "Variation") THEN "sdk_call"
    ELSE IF Includes(line, "config") \/ Includes(line, "Config") \/ Includes(line, "FLAG")
         THEN "config"
    ELSE IF Includes(line, "test") \/ Includes(line, "Test") \/ Includes(line, "spec")
         THEN "test"
    ELSE "string_literal"


isTest(filePath) ==
    Includes(filePath, "test") \/ Includes(filePath, "spec") \/ Includes(filePath, "__tests__")

\* determineConfidence with the test-path check applied to medium as well
determineConfidenceStrict(matchType, hasSDK, filePath) ==
    IF matchType = "sdk_call" /\ hasSDK /\ ~isTest(filePath) THEN "high"
    ELSE IF ~isTest(filePath) /\ (matchType = "sdk_call" \/ (matchType = "string_literal" /\ hasSDK))
         THEN "medium"
    ELSE "low"


determineConfidence(matchType, hasSDK, filePath) ==
    IF matchType = "sdk_call" /\ hasSDK /\ ~isTest(filePath) THEN "high"
    ELSE IF matchType = "sdk_call" \/ (matchType = "string_literal" /\ hasSDK) THEN "medium"
    ELSE "low"

Max2(a, b) == IF a > b THEN a ELSE b

Min2(a, b) == IF a < b THEN a ELSE b

\* getSnippet without the context lines around the match
getSnippetLineOnly(lines, lineIndex) == lines[lineIndex + 1]

\* lines.slice(start, end).join('\n'), lineIndex 0-based
getSnippet(lines, lineIndex) ==
    LET start == Max2(0, lineIndex - 1)
        end == Min2(Len(lines), lineIndex + 2)
    IN  JoinLines(SubSeq(lines, start + 1, end))

\* path.join(dirPath, name), dirPath without a trailing separator
PathJoin(dirPath, name) == dirPath \o "/" \o name

\* path.relative(repoPath, filePath) for a filePath below repoPath
PathRelative(repoPath, filePath) == SubSeq(filePath, Len(repoPath) + 2, Len(filePath))

\* scanLine without the break of line 115: one record per matching pattern
scanLineNoBreak(filePath, lines, lineIndex, flagPatterns, hasSDK, language, repoPath) ==
    LET line == lines[lineIndex + 1]
        rec(p) == [ file       |-> PathRelative(repoPath, filePath),
                    line       |-> lineIndex + 1,
                    column     |-> RegexExec(flagPatterns[p], line, 0),
                    snippet    |-> getSnippet(lines, lineIndex),
                    matchType  |-> determineMatchType(line, hasSDK),
                    confidence |-> determineConfidence(determineMatchType(line, hasSDK),
                                                       hasSDK, filePath),
                    language   |-> language ]
        all == [p \in 1..Len(flagPatterns) |-> rec(p)]
    IN  SelectSeq(all, LAMBDA r : r.column >= 0)

\* scanLine with the zero-based lineIndex recorded as the line
scanLineZeroBased(filePath, lines, lineIndex, flagPatterns, hasSDK, language, repoPath) ==
    LET line == lines[lineIndex + 1]
        hit == { p \in 1..Len(flagPatterns) : RegexExec(flagPatterns[p], line, 0) >= 0 }
    IN  IF hit = {} THEN <<>>
        ELSE LET matchType == determineMatchType(line, hasSDK)
             IN  << [ file       |-> PathRelative(repoPath, filePath),
                      line       |-> lineIndex,
                      column     |-> RegexExec(flagPatterns[Min(hit)], line, 0),
                      snippet    |-> getSnippet(lines, lineIndex),
                      matchType  |-> matchType,
                      confidence |-> determineConfidence(matchType, hasSDK, filePath),
                      language   |-> language ] >>

\* the inner loop of scanFile on one line: the patterns in order, each exec
\* started at lastIndex 0, the first that matches recorded, then break
scanLine(filePath, lines, lineIndex, flagPatterns, hasSDK, language, repoPath) ==
    LET line == lines[lineIndex + 1]
        hit == { p \in 1..Len(flagPatterns) : RegexExec(flagPatterns[p], line, 0) >= 0 }
    IN  IF hit = {} THEN <<>>
        ELSE LET matchType == determineMatchType(line, hasSDK)
             IN  << [ file       |-> PathRelative(repoPath, filePath),
                      line       |-> lineIndex + 1,
                      column     |-> RegexExec(flagPatterns[Min(hit)], line, 0),
                      snippet    |-> getSnippet(lines, lineIndex),
                      matchType  |-> matchType,
                      confidence |-> determineConfidence(matchType, hasSDK, filePath),
                      language   |-> language ] >>

RECURSIVE scanLines(_, _, _, _, _, _, _)
scanLines(filePath, lines, lineIndex, flagPatterns, hasSDK, language, repoPath) ==
    IF lineIndex >= Len(lines) THEN <<>>
    ELSE scanLine(filePath, lines, lineIndex, flagPatterns, hasSDK, language, repoPath)
         \o scanLines(filePath, lines, lineIndex + 1, flagPatterns, hasSDK, language, repoPath)

\* scanFile with hasSDK taken, at each line, from the content up to that line
RECURSIVE scanLinesImportSoFar(_, _, _, _, _, _)
scanLinesImportSoFar(filePath, lines, lineIndex, flagPatterns, language, repoPath) ==
    IF lineIndex >= Len(lines) THEN <<>>
    ELSE scanLine(filePath, lines, lineIndex, flagPatterns,
                  hasSDKImport(SubSeq(lines, 1, lineIndex + 1), language),
                  language, repoPath)
         \o scanLinesImportSoFar(filePath, lines, lineIndex + 1, flagPatterns,
                                 language, repoPath)

scanFileImportSoFar(filePath, content, flagKey, language, repoPath) ==
    IF language \notin LangIds THEN <<>>
    ELSE scanLinesImportSoFar(filePath, content, 0, flagCallPatterns(language, flagKey),
                              language, repoPath)

\* scanFile throws where pattern.flagCallPatterns(flagKey) does
scanFileThrows(flagKey, language) == language \in LangIds /\ ~KeyCompiles(flagKey)

scanFile(filePath, content, flagKey, language, repoPath) ==
    IF language \notin LangIds THEN <<>>
    ELSE scanLines(filePath, content, 0, flagCallPatterns(language, flagKey),
                   hasSDKImport(content, language), language, repoPath)


---------------------------------------------------------------------------
(* The file system under repoPath, as readdir, stat and readFile show it.  *)
(* A directory lists or throws (EACCES); a file's stat and read succeed or *)
(* throw; an entry that is neither (a symbolic link, a socket) answers     *)
(* false to both Dirent.isDirectory() and Dirent.isFile().  The root may   *)
(* also be missing (ENOENT) or a file (ENOTDIR).                           *)

File(name, size, stat, read, content) ==
    [kind |-> "file", name |-> name, size |-> size, stat |-> stat, read |-> read,
     content |-> content]

Dir(name, list, entries) ==
    [kind |-> "dir", name |-> name, list |-> list, entries |-> entries]

Other(name) == [kind |-> "other", name |-> name]

Missing(name) == [kind |-> "missing", name |-> name]

\* fs.promises.readdir(dirPath, {withFileTypes: true}) resolves
readdirOk(node) == node.kind = "dir" /\ node.list = "ok"

\* path.basename
Basename(p) ==
    LET slashes == { i \in 1..Len(p) : Char(p, i) = "/" }
    IN  IF slashes = {} THEN p
        ELSE SubSeq(p, (CHOOSE m \in slashes : \A n \in slashes : n <= m) + 1, Len(p))

---------------------------------------------------------------------------
(* CodeScanner.scanRepository (src/lib/scanner/index.ts, lines 10-76).     *)
(* call[c] holds the locals of invocation c: its parameters, matches,      *)
(* scannedFiles and skippedFiles, and the chain of suspended scanDir       *)
(* activations (stack; the last frame is the running one, i the 1-based    *)
(* position of its for loop in entries).  pc is the await the invocation   *)
(* is suspended at.  visited and listed record, for the properties, the    *)
(* regular files the loop took (path and entry) and the paths readdir was  *)
(* called on, and alone whether no other invocation of the shared          *)
(* codeScanner was running when this one was made.                         *)

CallIds == {1, 2}

Idle ==
    [status |-> "idle", pc |-> "done", repoPath |-> "", flagKey |-> "", provider |-> "",
     stack |-> <<>>, matches |-> <<>>, scannedFiles |-> 0, skippedFiles |-> 0,
     result |-> <<>>, visited |-> <<>>, listed |-> <<>>, alone |-> TRUE]

Frame(dirPath, node) == [dirPath |-> dirPath, node |-> node, i |-> 1]

\* lines 15-21 and 64: the locals, and scanDir(repoPath) at its readdir
Invoke(repoPath, flagKey, provider, root) ==
    [status |-> "running", pc |-> "readdir", repoPath |-> repoPath, flagKey |-> flagKey,
     provider |-> provider, stack |-> <<Frame(repoPath, root)>>, matches |-> <<>>,
     scannedFiles |-> 0, skippedFiles |-> 0, result |-> <<>>, visited |-> <<>>,
     listed |-> <<repoPath>>, alone |-> TRUE]

\* a call of codeScanner.scanRepository(repoPath, flagKey, provider) that a
\* caller is about to make
Pending(repoPath, flagKey, provider) ==
    [Idle EXCEPT !.status = "pending", !.repoPath = repoPath, !.flagKey = flagKey,
                 !.provider = provider]

Top(cs) == cs.stack[Len(cs.stack)]

Entries(cs) == Top(cs).node.entries

AtEntry(cs) == cs.status = "running" /\ cs.pc = "loop" /\ Top(cs).i <= Len(Entries(cs))

Entry(cs) == Entries(cs)[Top(cs).i]

FullPath(cs) == PathJoin(Top(cs).dirPath, Entry(cs).name)

\* the file the loop is at, for visited
Visit(cs) == [path |-> FullPath(cs), entry |-> Entry(cs)]

\* isIgnored with one name missing from the list
isIgnoredButOut(name) == name \in IGNORE_DIRS \ {"out"}

\* line 27
isIgnored(name) == name \in IGNORE_DIRS

\* lines 66-75, scanDurationMs left out
ScanResult(cs) ==
    [flagKey |-> cs.flagKey, provider |-> cs.provider, repo |-> Basename(cs.repoPath),
     totalMatches |-> Len(cs.matches), matches |-> cs.matches,
     scannedFiles |-> cs.scannedFiles, skippedFiles |-> cs.skippedFiles]

\* scanRepository's promise resolves
Returned(cs) ==
    [cs EXCEPT !.status = "returned", !.pc = "done", !.stack = <<>>,
               !.result = <<ScanResult(cs)>>]

\* an exception no frame catches: scanRepository's promise rejects
Rejected(cs) == [cs EXCEPT !.status = "rejected", !.pc = "done", !.stack = <<>>]

\* the for loop moves to its next entry
Continue(cs) ==
    [cs EXCEPT !.pc = "loop", !.stack[Len(cs.stack)].i = @ + 1]

\* skippedFiles++ and on to the next entry (lines 36-37, 43-44, 58)
Skip(cs) == Continue([cs EXCEPT !.skippedFiles = @ + 1])

\* ScanRepository with matches a field of the shared instance: the list of
\* the invocation made first is the list of every later one
ScanRepositoryShared(c) ==
    /\ call[c].status = "pending"
    /\ call' = [call EXCEPT ![c] =
                  [Invoke(@.repoPath, @.flagKey, @.provider, fs) EXCEPT
                      !.matches = IF c = 1 THEN <<>> ELSE call[1].matches,
                      !.alone = \A d \in CallIds \ {c} : call[d].status # "running"]]
    /\ UNCHANGED <<fs, probe, job>>

\* lines 10-21 and 64: the pending call is made on the codeScanner of line
\* 162, whatever the other invocations are at
ScanRepository(c) ==
    /\ call[c].status = "pending"
    /\ call' = [call EXCEPT ![c] =
                  [Invoke(@.repoPath, @.flagKey, @.provider, fs) EXCEPT
                      !.alone = \A d \in CallIds \ {c} : call[d].status # "running"]]
    /\ UNCHANGED <<fs, probe, job>>

\* line 21 resolves
ReaddirOk(c) ==
    /\ call[c].status = "running" /\ call[c].pc = "readdir"
    /\ readdirOk(Top(call[c]).node)
    /\ call' = [call EXCEPT ![c].pc = "loop"]
    /\ UNCHANGED <<fs, probe, job>>

\* ReaddirThrows with the readdir error swallowed: the directory counts as empty
ReaddirThrowsSwallowed(c) ==
    /\ call[c].status = "running" /\ call[c].pc = "readdir"
    /\ ~readdirOk(Top(call[c]).node)
    /\ call' = [call EXCEPT ![c] =
                  IF Len(@.stack) = 1 THEN Returned(@)
                  ELSE Continue([@ EXCEPT !.stack = SubSeq(@, 1, Len(@) - 1)])]
    /\ UNCHANGED <<fs, probe, job>>

\* line 21 throws: neither scanDir nor scanRepository catches it
ReaddirThrows(c) ==
    /\ call[c].status = "running" /\ call[c].pc = "readdir"
    /\ ~readdirOk(Top(call[c]).node)
    /\ call' = [call EXCEPT ![c] = Rejected(@)]
    /\ UNCHANGED <<fs, probe, job>>

\* lines 26-29: a directory that is not ignored: await scanDir(fullPath)
EnterDir(c) ==
    /\ AtEntry(call[c])
    /\ Entry(call[c]).kind = "dir" /\ ~isIgnored(Entry(call[c]).name)
    /\ call' = [call EXCEPT ![c] =
                  [@ EXCEPT !.pc = "readdir",
                            !.stack = Append(@, Frame(FullPath(call[c]), Entry(call[c]))),
                            !.listed = Append(@, FullPath(call[c]))]]
    /\ UNCHANGED <<fs, probe, job>>

\* lines 26-30: an ignored directory
SkipIgnoredDir(c) ==
    /\ AtEntry(call[c])
    /\ Entry(call[c]).kind = "dir" /\ isIgnored(Entry(call[c]).name)
    /\ call' = [call EXCEPT ![c] = Continue(@)]
    /\ UNCHANGED <<fs, probe, job>>

\* lines 26, 33: neither a directory nor a regular file
SkipOther(c) ==
    /\ AtEntry(call[c])
    /\ Entry(call[c]).kind \notin {"dir", "file"}
    /\ call' = [call EXCEPT ![c] = Continue(@)]
    /\ UNCHANGED <<fs, probe, job>>

\* UnknownExtension with line 34 missing: the file goes on to stat
UnknownExtensionOpened(c) ==
    /\ AtEntry(call[c])
    /\ Entry(call[c]).kind = "file"
    /\ detectLanguage(Entry(call[c]).name) = NoLanguage
    /\ call' = [call EXCEPT ![c] =
                  [@ EXCEPT !.pc = "stat", !.visited = Append(@, Visit(call[c]))]]
    /\ UNCHANGED <<fs, probe, job>>

\* lines 33-38: a file no profile recognises
UnknownExtension(c) ==
    /\ AtEntry(call[c])
    /\ Entry(call[c]).kind = "file"
    /\ detectLanguage(Entry(call[c]).name) = NoLanguage
    /\ call' = [call EXCEPT ![c] = Skip([@ EXCEPT !.visited = Append(@, Visit(call[c]))])]
    /\ UNCHANGED <<fs, probe, job>>

\* lines 33-41: a recognised file: await stat(fullPath)
BeginStat(c) ==
    /\ AtEntry(call[c])
    /\ Entry(call[c]).kind = "file"
    /\ detectLanguage(Entry(call[c]).name) # NoLanguage
    /\ call' = [call EXCEPT ![c] =
                  [@ EXCEPT !.pc = "stat", !.visited = Append(@, Visit(call[c]))]]
    /\ UNCHANGED <<fs, probe, job>>

\* line 41 throws, caught at line 57
StatThrows(c) ==
    /\ call[c].status = "running" /\ call[c].pc = "stat"
    /\ Entry(call[c]).stat = "err"
    /\ call' = [call EXCEPT ![c] = Skip(@)]
    /\ UNCHANGED <<fs, probe, job>>

\* StatTooBig without line 43: the oversized file is passed over uncounted
StatTooBigUncounted(c) ==
    /\ call[c].status = "running" /\ call[c].pc = "stat"
    /\ Entry(call[c]).stat = "ok" /\ Entry(call[c]).size > MAX_FILE_SIZE
    /\ call' = [call EXCEPT ![c] = Continue(@)]
    /\ UNCHANGED <<fs, probe, job>>

\* lines 42-45
StatTooBig(c) ==
    /\ call[c].status = "running" /\ call[c].pc = "stat"
    /\ Entry(call[c]).stat = "ok" /\ Entry(call[c]).size > MAX_FILE_SIZE
    /\ call' = [call EXCEPT ![c] = Skip(@)]
    /\ UNCHANGED <<fs, probe, job>>

\* lines 42, 47: await readFile(fullPath, 'utf-8')
StatOk(c) ==
    /\ call[c].status = "running" /\ call[c].pc = "stat"
    /\ Entry(call[c]).stat = "ok" /\ ~(Entry(call[c]).size > MAX_FILE_SIZE)
    /\ call' = [call EXCEPT ![c].pc = "read"]
    /\ UNCHANGED <<fs, probe, job>>

\* ReadThrows with readFile outside the try block
ReadThrowsUncaught(c) ==
    /\ call[c].status = "running" /\ call[c].pc = "read"
    /\ Entry(call[c]).read = "err"
    /\ call' = [call EXCEPT ![c] = Rejected(@)]
    /\ UNCHANGED <<fs, probe, job>>

\* line 47 throws, caught at line 57
ReadThrows(c) ==
    /\ call[c].status = "running" /\ call[c].pc = "read"
    /\ Entry(call[c]).read = "err"
    /\ call' = [call EXCEPT ![c] = Skip(@)]
    /\ UNCHANGED <<fs, probe, job>>

\* lines 48-54 throw (scanFile, line 92), caught at line 57
ScanThrows(c) ==
    /\ call[c].status = "running" /\ call[c].pc = "read"
    /\ Entry(call[c]).read = "ok"
    /\ scanFileThrows(call[c].flagKey, detectLanguage(Entry(call[c]).name))
    /\ call' = [call EXCEPT ![c] = Skip(@)]
    /\ UNCHANGED <<fs, probe, job>>

\* Scanned with the matches of the file put before those gathered so far
ScannedFirst(cs) ==
    Continue([cs EXCEPT
        !.matches = scanFile(FullPath(cs), Entry(cs).content, cs.flagKey,
                             detectLanguage(Entry(cs).name), cs.repoPath) \o @,
        !.scannedFiles = @ + 1])

\* lines 47-56
Scanned(cs) ==
    Continue([cs EXCEPT
        !.matches = @ \o scanFile(FullPath(cs), Entry(cs).content, cs.flagKey,
                                  detectLanguage(Entry(cs).name), cs.repoPath),
        !.scannedFiles = @ + 1])

\* ScanOk with matches shared by the invocations: every running invocation
\* gets the matches of the file
ScanOkShared(c) ==
    /\ call[c].status = "running" /\ call[c].pc = "read"
    /\ Entry(call[c]).read = "ok"
    /\ ~scanFileThrows(call[c].flagKey, detectLanguage(Entry(call[c]).name))
    /\ call' = [d \in CallIds |->
                  IF d = c THEN Scanned(call[c])
                  ELSE IF call[d].status = "running"
                       THEN [call[d] EXCEPT !.matches =
                               @ \o scanFile(FullPath(call[c]), Entry(call[c]).content,
                                             call[c].flagKey,
                                             detectLanguage(Entry(call[c]).name),
                                             call[c].repoPath)]
                  ELSE call[d]]
    /\ UNCHANGED <<fs, probe, job>>

ScanOk(c) ==
    /\ call[c].status = "running" /\ call[c].pc = "read"
    /\ Entry(call[c]).read = "ok"
    /\ ~scanFileThrows(call[c].flagKey, detectLanguage(Entry(call[c]).name))
    /\ call' = [call EXCEPT ![c] = Scanned(@)]
    /\ UNCHANGED <<fs, probe, job>>

\* line 61-62 in a nested scanDir: line 28 resolves, line 30 continues
EndDir(c) ==
    /\ call[c].status = "running" /\ call[c].pc = "loop"
    /\ Top(call[c]).i > Len(Entries(call[c]))
    /\ Len(call[c].stack) > 1
    /\ call' = [call EXCEPT ![c] =
                  Continue([@ EXCEPT !.stack = SubSeq(@, 1, Len(@) - 1)])]
    /\ UNCHANGED <<fs, probe, job>>

\* lines 64-75: scanDir(repoPath) resolves
Return(c) ==
    /\ call[c].status = "running" /\ call[c].pc = "loop"
    /\ Top(call[c]).i > Len(Entries(call[c]))
    /\ Len(call[c].stack) = 1
    /\ call' = [call EXCEPT ![c] = Returned(@)]
    /\ UNCHANGED <<fs, probe, job>>

Next ==
    \E c \in CallIds :
        \/ ReaddirOk(c) \/ ReaddirThrows(c)
        \/ EnterDir(c) \/ SkipIgnoredDir(c) \/ SkipOther(c)
        \/ UnknownExtension(c) \/ BeginStat(c)
        \/ StatThrows(c) \/ StatTooBig(c) \/ StatOk(c)
        \/ ReadThrows(c) \/ ScanThrows(c) \/ ScanOk(c)
        \/ EndDir(c) \/ Return(c)


---------------------------------------------------------------------------
(* The inputs: flag keys, source lines and trees *)

MaxNodes == 3

MaxLines == 3

RepoPath == "/w/repo"

\* a checkout below a directory named test
TestRepoPath == "/w/test/repo"

Provider == "launchdarkly"

\* OLD_FLAG holds the classifier token FLAG, my.flag a regex dot, f( does
\* not compile
FlagKeys == {"OLD_FLAG", "my-flag", "my.flag", "f("}

WalkKeys == {"OLD_FLAG", "f("}

ImportTs == "import { init } from 'launchdarkly-node-server-sdk';"

ImportPy == "import ldclient"

LineBool(k) == "client.boolVariation('" \o k \o "', false)"

LineLitThenCall(k) == "x = '" \o k \o "'; y = c.variation('" \o k \o "')"

LineLit(k) == "const a = '" \o k \o "'"

LineCfg(k) == "featureConfig['" \o k \o "'] = true"

LineTest(k) == "expect(get('" \o k \o "')).toBe(1) // test"

LinePy(k) == "x = \"" \o k \o "\""

LinePyCall(k) == "v = client.variation_detail(\"" \o k \o "\", u)"

TsLines(k) ==
    {ImportTs, LineBool(k), LineLitThenCall(k), LineLit(k), LineCfg(k), LineTest(k), ""}

PyLines(k) == {ImportPy, LinePy(k), LinePyCall(k)}

Contents(lines, n) == UNION { [1..m -> lines] : m \in 1..n }

Readable(name, content) == File(name, 64, "ok", "ok", content)

AppTs(k) == Readable("app.ts", <<ImportTs, LineBool(k), LineLit(k)>>)

\* one file of each way through lines 33-59
WalkFiles(k) ==
    { Readable("README.md", <<"uses '" \o k \o "'">>),
      AppTs(k),
      Readable("x.py", <<LinePy(k)>>),
      File("big.ts", MAX_FILE_SIZE + 1, "ok", "ok", <<LineBool(k)>>),
      File("gone.ts", 64, "err", "err", <<LineBool(k)>>),
      File("bin.ts", 64, "ok", "err", <<LineBool(k)>>) }

WalkDirNames == {"src", "dist"}

Leaves(k) ==
    WalkFiles(k) \cup {Other("link")}
    \cup { Dir(d, l, <<>>) : d \in WalkDirNames, l \in {"ok", "err"} }

\* the ordered forests of exactly n entries, the names of one directory all
\* different, and the trees of exactly n
RECURSIVE ForestsOf(_, _)
RECURSIVE TreesOf(_, _)
ForestsOf(n, k) ==
    IF n = 0 THEN {<<>>}
    ELSE UNION { { <<tf[1]>> \o tf[2] :
                     tf \in { x \in TreesOf(m, k) \X ForestsOf(n - m, k) :
                                \A i \in 1..Len(x[2]) : x[2][i].name # x[1].name } }
                 : m \in 1..n }

TreesOf(n, k) ==
    IF n = 1 THEN Leaves(k)
    ELSE { Dir(d, "ok", f) : d \in WalkDirNames, f \in ForestsOf(n - 1, k) }

\* every tree of at most n entries below a listable root, and the three
\* roots readdir fails on
Roots(n, k) ==
    { Dir("repo", "ok", f) : f \in UNION { ForestsOf(m, k) : m \in 0..n } }
    \cup { Dir("repo", "err", <<>>), Missing("repo"),
           Readable("repo", <<LineBool(k)>>) }

\* a directory of every ignored name, and of two that are not, at depth 1
\* and at depth 2, with a matching file in it
IgnoreRoots(k) ==
    UNION { { Dir("repo", "ok", <<Dir(d, "ok", <<AppTs(k)>>)>>),
              Dir("repo", "ok", <<Dir("src", "ok", <<Dir(d, "ok", <<AppTs(k)>>)>>)>>) }
            : d \in IGNORE_DIRS \cup {"src", "outer"} }

\* one source file below the root, its lines drawn from the catalogue
FileRoots(k) ==
    { Dir("repo", "ok", <<Readable(n, c)>>) :
        n \in {"app.ts", "app.test.ts", "latest.ts"}, c \in Contents(TsLines(k), MaxLines) }
    \cup { Dir("repo", "ok", <<Readable("x.py", c)>>) : c \in Contents(PyLines(k), MaxLines) }

\* the same lines in a file outside and in a file on a test path
PairRoots(k) ==
    { Dir("repo", "ok", <<Readable("app.ts", c), Readable("app.test.ts", c)>>) :
        c \in Contents(TsLines(k), MaxLines - 1) }

\* no direct call of a registry function
NoProbe == [fn |-> "none"]

\* no scan request
NoJob == [pc |-> "none"]

Start(repoPath, root, k) ==
    /\ fs = root
    /\ probe = NoProbe
    /\ job = NoJob
    /\ call = [c \in CallIds |->
                 IF c = 1 THEN Invoke(repoPath, k, Provider, root) ELSE Idle]

Init == \E k \in WalkKeys : \E root \in Roots(MaxNodes, k) \cup IgnoreRoots(k) : Start(RepoPath, root, k)

Spec == Init /\ [][Next]_vars

InitFile ==
    \E k \in FlagKeys :
        \/ \E root \in FileRoots(k) \cup PairRoots(k) \cup Roots(2, k) : Start(RepoPath, root, k)
        \/ \E root \in PairRoots(k) : Start(TestRepoPath, root, k)

SpecFile == InitFile /\ [][Next]_vars

\* two calls on the shared codeScanner for one checkout, made in any order
\* and at any time, with the same flag key or two different ones
InitTwo ==
    /\ fs \in Roots(MaxNodes - 1, "OLD_FLAG")
    /\ probe = NoProbe
    /\ job = NoJob
    /\ \E k \in WalkKeys :
          call = [c \in CallIds |->
                    Pending(RepoPath, IF c = 1 THEN "OLD_FLAG" ELSE k, Provider)]

NextTwo == Next \/ \E c \in CallIds : ScanRepository(c)

SpecTwo == InitTwo /\ [][NextTwo]_vars

---------------------------------------------------------------------------
(* Direct calls of the registry's exported functions.  probe holds the    *)
(* function, its arguments and out, the outcomes of the calls made so far *)
(* with these arguments: threw, and the value returned.                   *)

MaxCalls == 2

Paths ==
    {"test.ts", "test.tsx", "test.js", "test.jsx", "test.py", "Test.java", "test.go",
     "test.txt", "README.md", "src/app.ts", "a.ts.md", "a.py/notes", "data.json",
     "X.TS", "go", ".py", "a.java.ts"}

ProbeContents ==
    { <<"", "import { LDClient } from 'launchdarkly-js-client-sdk';",
        "const client = LDClient.initialize('key');", "">>,
      <<ImportTs>>,
      <<"const ld = require(\"launchdarkly-node-server-sdk\")">>,
      <<"", "import ldclient", "client = ldclient.get()", "">>,
      <<"from ldclient.config import Config">>,
      <<"import com.launchdarkly.sdk.server.*;">>,
      <<"import ld \"github.com/launchdarkly/go-server-sdk/v6\"">>,
      <<"import (", "\"github.com/launchdarkly/go-server-sdk/v6\"", ")">>,
      <<"", "const someCode = 'test';", "">>,
      <<"// launchdarkly-node-server-sdk">>,
      <<"">> }

ProbeLines ==
    { ".variation('my-flag', false)", "x = \"myXflag\"", "const a = 'myXflag'",
      "x = \"my.flag\"", "x = \"OLD_FLAG\"", "x = OLD_FLAG",
      "c.boolVariation(\"f(\", d)", "a = " \o BT \o "my-flag" \o BT }

ProbeLanguages == LangIds \cup {"ruby", "null", ""} \cup {"constructor", "toString"}

Outcome(threw, value) == [threw |-> threw, value |-> value]

InitRegistry ==
    /\ fs = Missing("repo")
    /\ call = [c \in CallIds |-> Idle]
    /\ job = NoJob
    /\ \/ \E path \in Paths :
             probe = [fn |-> "detectLanguage", path |-> path, out |-> <<>>]
       \/ \E content \in ProbeContents, language \in ProbeLanguages :
             probe = [fn |-> "hasSDKImport", content |-> content, language |-> language,
                      out |-> <<>>]
       \/ \E language \in LangIds, key \in FlagKeys, line \in ProbeLines :
             probe = [fn |-> "flagCallPatterns", language |-> language, key |-> key,
                      line |-> line, out |-> <<>>]

\* detectLanguage(filePath), part_003 lines 61-68
CallDetectLanguage ==
    /\ probe.fn = "detectLanguage" /\ Len(probe.out) < MaxCalls
    /\ probe' = [probe EXCEPT !.out = Append(@, Outcome(FALSE, detectLanguage(probe.path)))]
    /\ UNCHANGED <<fs, call, job>>

\* hasSDKImport(content, language), part_003 lines 70-75
CallHasSDKImport ==
    /\ probe.fn = "hasSDKImport" /\ Len(probe.out) < MaxCalls
    /\ probe' = [probe EXCEPT !.out =
                    Append(@, IF hasSDKImportThrows(probe.language)
                              THEN Outcome(TRUE, FALSE)
                              ELSE Outcome(FALSE, hasSDKImport(probe.content,
                                                               probe.language)))]
    /\ UNCHANGED <<fs, call, job>>

\* LANGUAGE_PATTERNS[language].flagCallPatterns(key), part_003 lines
\* 15-57, and patterns.some(p => p.test(line)) as part_001 lines 65-69 and
\* index.ts lines 92-99 apply them: new RegExp throws, or some pattern
\* matches the line or none does
CallFlagCallPatterns ==
    /\ probe.fn = "flagCallPatterns" /\ Len(probe.out) < MaxCalls
    /\ probe' = [probe EXCEPT !.out =
                    Append(@, IF ~KeyCompiles(probe.key) THEN Outcome(TRUE, FALSE)
                              ELSE Outcome(FALSE,
                                     \E p \in 1..Len(flagCallPatterns(probe.language,
                                                                       probe.key)) :
                                        RegexExec(flagCallPatterns(probe.language,
                                                                   probe.key)[p],
                                                  probe.line, 0) >= 0))]
    /\ UNCHANGED <<fs, call, job>>

NextRegistry == CallDetectLanguage \/ CallHasSDKImport \/ CallFlagCallPatterns

SpecRegistry == InitRegistry /\ [][NextRegistry]_vars


---------------------------------------------------------------------------
(* The scan request (src/app/api/scan/route.ts) and the PR requests        *)
(* (src/app/api/pr/create/route.ts).  job holds the repos of the request,  *)
(* the session row (status, scanResults, prUrl), the audit log, the        *)
(* position of scanRepositories at its awaits, the branches and pull       *)
(* requests made on GitHub, and in pr the handlers of the PR requests,     *)
(* each with the status it read (seen), the results it parsed, its prUrls  *)
(* and its position.  Every await of a file system, GitHub or database     *)
(* call resolves or throws.  A result carries req, the place in repos of   *)
(* the repository it is the result of; an audit entry carries the action,  *)
(* the repository written to its repos column and the success flag; tried  *)
(* holds the places in results of the results a PR was attempted for;      *)
(* rmTried tells that the rm of the work directory was called.             *)

MaxRepos == 2

RepoNames == {"acme/web", "acme/api", "acme/docs"}

\* the requests the schema of lines 11-17 lets through, no name twice
Requests ==
    { r \in UNION { [1..n -> RepoNames] : n \in 1..MaxRepos } :
        \A i, j \in 1..Len(r) : i # j => r[i] # r[j] }

Outcomes == {"ok", "throws"}

\* the requests to POST /api/pr/create that are followed
Handlers == {1, 2}

\* a PR request that has not been made
NoRequest ==
    [pc |-> "none", seen |-> "none", results |-> <<>>, k |-> 1, prUrls |-> <<>>,
     tried |-> {}, response |-> 0]

\* lines 24-36: the session is created and scanRepositories starts
NewJob(repos) ==
    [pc |-> "mkdir", repos |-> repos, i |-> 1, allResults |-> <<>>, audit |-> <<>>,
     session |-> [status |-> "scanning", scanResults |-> <<>>, prUrl |-> <<>>],
     workDir |-> "none", thrown |-> FALSE, rmTried |-> FALSE,
     branches |-> {}, prs |-> {}, pr |-> [h \in Handlers |-> NoRequest]]

AuditEntry(action, repo, success) ==
    [action |-> action, repo |-> repo, success |-> success]

\* the for loop of line 78 goes to its next repository, or to line 120
NextRepo(j) ==
    IF j.i < Len(j.repos) THEN [j EXCEPT !.pc = "clone", !.i = @ + 1]
    ELSE [j EXCEPT !.pc = "update"]

\* an exception that leaves the try block of line 77 without its finally
UnwindPastFinally(j) == [j EXCEPT !.pc = "catch", !.thrown = TRUE]

\* an exception leaves the try block of line 77 for the finally of line 127
Unwind(j) == [j EXCEPT !.pc = "cleanup", !.thrown = TRUE]

\* line 73, outside the try block: a throw rejects scanRepositories
Mkdir ==
    /\ job.pc = "mkdir"
    /\ \E o \in Outcomes :
          job' = IF o = "ok" THEN [job EXCEPT !.pc = "clone", !.workDir = "made"]
                 ELSE [job EXCEPT !.pc = "catch"]
    /\ UNCHANGED <<fs, call, probe>>

\* line 82
Clone ==
    /\ job.pc = "clone"
    /\ \E o \in Outcomes :
          job' = [job EXCEPT !.pc = IF o = "ok" THEN "scan" ELSE "auditFail"]
    /\ UNCHANGED <<fs, call, probe>>

\* lines 84-90: the scan returns a result, which is pushed, or rejects
Scan ==
    /\ job.pc = "scan"
    /\ \/ \E n \in {0, 1} :
             job' = [job EXCEPT
                        !.pc = "auditOk",
                        !.allResults =
                            Append(@, [repo |-> Basename(job.repos[job.i]),
                                       totalMatches |-> n, req |-> job.i])]
       \/ job' = [job EXCEPT !.pc = "auditFail"]
    /\ UNCHANGED <<fs, call, probe>>

\* lines 92-102, inside the try block of line 79
AuditScanOk ==
    /\ job.pc = "auditOk"
    /\ \E o \in Outcomes :
          job' = IF o = "ok"
                 THEN NextRepo([job EXCEPT !.audit =
                         Append(@, AuditEntry("scan", job.repos[job.i], TRUE))])
                 ELSE [job EXCEPT !.pc = "auditFail"]
    /\ UNCHANGED <<fs, call, probe>>

\* lines 103-117: the catch block; a throw here leaves the loop
AuditScanFailed ==
    /\ job.pc = "auditFail"
    /\ \E o \in Outcomes :
          job' = IF o = "ok"
                 THEN NextRepo([job EXCEPT !.audit =
                         Append(@, AuditEntry("scan", job.repos[job.i], FALSE))])
                 ELSE Unwind(job)
    /\ UNCHANGED <<fs, call, probe>>

\* lines 120-126
UpdateSession ==
    /\ job.pc = "update"
    /\ \E o \in Outcomes :
          job' = IF o = "ok"
                 THEN [job EXCEPT
                          !.pc = "cleanup",
                          !.session.scanResults = job.allResults,
                          !.session.status =
                              IF Len(job.allResults) > 0 THEN "ready" ELSE "failed"]
                 ELSE Unwind(job)
    /\ UNCHANGED <<fs, call, probe>>

\* lines 127-133: rm, its error caught; then the exception, if one is
\* pending, rejects scanRepositories
Cleanup ==
    /\ job.pc = "cleanup"
    /\ \E o \in Outcomes :
          job' = [job EXCEPT !.workDir = IF o = "ok" THEN "removed" ELSE @,
                             !.rmTried = TRUE,
                             !.pc = IF job.thrown THEN "catch" ELSE "idle"]
    /\ UNCHANGED <<fs, call, probe>>

\* lines 37-43: the handler of the rejection sets the session failed; the
\* error of that update is caught too
CatchRejection ==
    /\ job.pc = "catch"
    /\ \E o \in Outcomes :
          job' = [job EXCEPT !.pc = "idle",
                             !.session.status = IF o = "ok" THEN "failed" ELSE @]
    /\ UNCHANGED <<fs, call, probe>>

\* the loop of line 48 of a PR request at the result at place k or after it
\* that has matches (line 49), or past the loop at line 97
SeekResult(p, k) ==
    LET todo == { n \in k..Len(p.results) : p.results[n].totalMatches # 0 }
    IN  IF todo = {} THEN [p EXCEPT !.pc = "pr_update", !.k = Len(p.results) + 1]
        ELSE [p EXCEPT !.pc = "pr_branch", !.k = Min(todo)]

\* the handler returns a response
Respond(p, code) == [p EXCEPT !.pc = "responded", !.response = code]

\* PostCreatePR without the check of line 29
PostCreatePRUngated(h) ==
    /\ job.pc # "none" /\ job.pr[h].pc = "none"
    /\ \E o \in Outcomes, known \in BOOLEAN :
          job' = [job EXCEPT !.pr[h] =
                    IF o = "throws" THEN Respond(@, 500)
                    ELSE IF ~known THEN Respond([@ EXCEPT !.seen = "missing"], 404)
                    ELSE IF Len(job.session.scanResults) = 0
                    THEN Respond([@ EXCEPT !.seen = job.session.status], 400)
                    ELSE SeekResult([@ EXCEPT !.seen = job.session.status,
                                              !.results = job.session.scanResults], 1)]
    /\ UNCHANGED <<fs, call, probe>>

\* lines 13-46 of the PR route: a request for the session of the scan, or
\* for a sessionId no session has, made at any time after the session was
\* created; findUnique resolves or throws
PostCreatePR(h) ==
    /\ job.pc # "none" /\ job.pr[h].pc = "none"
    /\ \E o \in Outcomes, known \in BOOLEAN :
          job' = [job EXCEPT !.pr[h] =
                    IF o = "throws" THEN Respond(@, 500)
                    ELSE IF ~known THEN Respond([@ EXCEPT !.seen = "missing"], 404)
                    ELSE IF job.session.status # "ready"
                    THEN Respond([@ EXCEPT !.seen = job.session.status], 400)
                    ELSE IF Len(job.session.scanResults) = 0
                    THEN Respond([@ EXCEPT !.seen = "ready"], 400)
                    ELSE SeekResult([@ EXCEPT !.seen = "ready",
                                              !.results = job.session.scanResults], 1)]
    /\ UNCHANGED <<fs, call, probe>>

\* lines 52-55: createBranch, the branch named after Date.now()
CreateBranch(h) ==
    /\ job.pr[h].pc = "pr_branch"
    /\ \E o \in Outcomes :
          job' = IF o = "ok"
                 THEN [job EXCEPT
                          !.pr[h].pc = "pr_create", !.pr[h].tried = @ \cup {job.pr[h].k},
                          !.branches = @ \cup {[req |-> job.pr[h].results[job.pr[h].k].req,
                                                  by |-> h]}]
                 ELSE [job EXCEPT !.pr[h].pc = "pr_auditFail",
                                  !.pr[h].tried = @ \cup {job.pr[h].k}]
    /\ UNCHANGED <<fs, call, probe>>

\* lines 57-67: createPR; the URL is pushed
CreatePR(h) ==
    /\ job.pr[h].pc = "pr_create"
    /\ \E o \in Outcomes :
          job' = IF o = "ok"
                 THEN [job EXCEPT
                          !.pr[h].pc = "pr_auditOk",
                          !.pr[h].prUrls = Append(@, job.pr[h].results[job.pr[h].k].req),
                          !.prs = @ \cup {[req |-> job.pr[h].results[job.pr[h].k].req,
                                             by |-> h]}]
                 ELSE [job EXCEPT !.pr[h].pc = "pr_auditFail"]
    /\ UNCHANGED <<fs, call, probe>>

\* lines 69-79, inside the try block of line 51
AuditPrOk(h) ==
    /\ job.pr[h].pc = "pr_auditOk"
    /\ \E o \in Outcomes :
          job' = IF o = "ok"
                 THEN [job EXCEPT
                          !.audit = Append(@, AuditEntry("create_pr",
                                        job.pr[h].results[job.pr[h].k].repo, TRUE)),
                          !.pr[h] = SeekResult(@, @.k + 1)]
                 ELSE [job EXCEPT !.pr[h].pc = "pr_auditFail"]
    /\ UNCHANGED <<fs, call, probe>>

\* lines 80-94: the catch block; a throw here reaches the catch of line 109
AuditPrFailed(h) ==
    /\ job.pr[h].pc = "pr_auditFail"
    /\ \E o \in Outcomes :
          job' = IF o = "ok"
                 THEN [job EXCEPT
                          !.audit = Append(@, AuditEntry("create_pr",
                                        job.pr[h].results[job.pr[h].k].repo, FALSE)),
                          !.pr[h] = SeekResult(@, @.k + 1)]
                 ELSE [job EXCEPT !.pr[h] = Respond(@, 500)]
    /\ UNCHANGED <<fs, call, probe>>

\* lines 97-108
UpdatePrSession(h) ==
    /\ job.pr[h].pc = "pr_update"
    /\ \E o \in Outcomes :
          job' = IF o = "ok"
                 THEN [job EXCEPT !.session.status = "pr_created",
                                  !.session.prUrl = job.pr[h].prUrls,
                                  !.pr[h] = Respond(@, 200)]
                 ELSE [job EXCEPT !.pr[h] = Respond(@, 500)]
    /\ UNCHANGED <<fs, call, probe>>

InitRoute ==
    /\ fs = Missing("repo")
    /\ call = [c \in CallIds |-> Idle]
    /\ probe = NoProbe
    /\ \E repos \in Requests : job = NewJob(repos)

\* the steps of scanRepositories and of the handler of its rejection
ScanJob ==
    \/ Mkdir \/ Clone \/ Scan \/ AuditScanOk \/ AuditScanFailed
    \/ UpdateSession \/ Cleanup \/ CatchRejection

NextRoute ==
    \/ Mkdir \/ Clone \/ Scan \/ AuditScanOk \/ AuditScanFailed
    \/ UpdateSession \/ Cleanup \/ CatchRejection
    \/ \E h \in Handlers :
          \/ PostCreatePR(h) \/ CreateBranch(h) \/ CreatePR(h)
          \/ AuditPrOk(h) \/ AuditPrFailed(h) \/ UpdatePrSession(h)

SpecRoute == InitRoute /\ [][NextRoute]_vars

\* scanRepositories and the handler of its rejection alone; the event loop
\* runs the continuation of every await that has settled
SpecScanJob == InitRoute /\ [][ScanJob]_vars /\ WF_vars(ScanJob)

---------------------------------------------------------------------------
(* Properties *)

IgnoredNames == {"node_modules", ".git", "dist", "build", ".next", "coverage", "out"}

\* the regular files of a tree outside its ignored directories
RECURSIVE CountFiles(_)
CountFiles(entries) ==
    IF entries = <<>> THEN 0
    ELSE LET e == Head(entries)
         IN  (IF e.kind = "file" THEN 1
              ELSE IF e.kind = "dir" /\ e.name \notin IgnoredNames THEN CountFiles(e.entries)
              ELSE 0)
             + CountFiles(Tail(entries))

\* a file whose stat or read is awaited
InFlight(cs) == IF cs.pc \in {"stat", "read"} THEN 1 ELSE 0

Recognised(e) == e.kind = "file" /\ detectLanguage(e.name) # NoLanguage

\* a recognised file whose stat throws, or whose read throws
Unreadable(e) ==
    Recognised(e) /\ (e.stat = "err" \/ (e.size <= MAX_FILE_SIZE /\ e.read = "err"))

Rel(cs, path) == SubSeq(path, Len(cs.repoPath) + 2, Len(path))

\* C1  Conservation: while a scan runs every regular file the loop has taken
\* has incremented exactly one of scannedFiles and skippedFiles (the file
\* whose stat or read is pending not yet), and in the ScanResult of a scan
\* that returns the two add up to the number of regular files of the tree
\* outside ignored directories.
C1_Conservation ==
    \A c \in CallIds :
        LET cs == call[c]
        IN  /\ cs.status = "running" =>
                 cs.scannedFiles + cs.skippedFiles + InFlight(cs) = Len(cs.visited)
            /\ cs.status = "returned" =>
                 /\ Len(cs.result) = 1
                 /\ cs.result[1].scannedFiles + cs.result[1].skippedFiles = Len(cs.visited)
                 /\ cs.result[1].scannedFiles + cs.result[1].skippedFiles
                      = CountFiles(fs.entries)

C1_Witness ==
    \E c \in CallIds :
        /\ call[c].status = "returned"
        /\ call[c].result[1].scannedFiles >= 1
        /\ call[c].result[1].skippedFiles >= 2

\* C2  Per-file error isolation: the step taken when stat or read of a
\* recognised file throws adds one to skippedFiles, leaves matches and
\* scannedFiles as they are, and leaves the scan running at the next entry
\* of the same directory.
C2_Step ==
    \A c \in CallIds :
        LET cs == call[c]
            cs2 == call'[c]
        IN  ( /\ cs.status = "running"
              /\ cs.pc \in {"stat", "read"}
              /\ Unreadable(Entry(cs))
              /\ \/ cs.pc = "stat" /\ Entry(cs).stat = "err"
                 \/ cs.pc = "read"
              /\ cs2 # cs )
            => /\ cs2.skippedFiles = cs.skippedFiles + 1
               /\ cs2.scannedFiles = cs.scannedFiles
               /\ cs2.matches = cs.matches
               /\ cs2.status = "running" /\ cs2.pc = "loop"
               /\ Len(cs2.stack) = Len(cs.stack)
               /\ Top(cs2).dirPath = Top(cs).dirPath
               /\ Top(cs2).i = Top(cs).i + 1

C2_FileErrorIsolation == [][C2_Step]_vars

\* a scan returned matches of a file it visited after an unreadable one
C2_Witness ==
    \E c \in CallIds :
        /\ call[c].status = "returned"
        /\ \E i, j \in 1..Len(call[c].visited) :
              /\ i < j
              /\ Unreadable(call[c].visited[i].entry)
              /\ \E m \in 1..Len(call[c].result[1].matches) :
                    call[c].result[1].matches[m].file = Rel(call[c], call[c].visited[j].path)

\* C3  Only the fatal case propagates: a scan rejects only if its root
\* cannot be listed.
C3_OnlyRootFatal ==
    \A c \in CallIds : call[c].status = "rejected" => ~readdirOk(fs)

\* C4  Fatal root: a scan whose root is missing, is not a directory or
\* cannot be listed never returns and holds no ScanResult; it has visited
\* nothing and, once over, has rejected.
C4_FatalRoot ==
    \A c \in CallIds :
        (call[c].status # "idle" /\ ~readdirOk(fs)) =>
            /\ call[c].status \in {"running", "rejected"}
            /\ call[c].status = "running" => call[c].pc = "readdir"
            /\ call[c].result = <<>>
            /\ call[c].visited = <<>>

C4_Witness ==
    \E c \in CallIds : call[c].status = "rejected" /\ fs.kind = "missing"

\* the path, relative to the root, lies in a directory of an ignored name
BelowIgnored(rel) ==
    \E d \in IgnoredNames : Includes("/" \o rel, "/" \o d \o "/")

\* C10  Ignored directories: readdir is never called on a directory of an
\* ignored name below the root nor on anything under one, no file under one
\* is taken by the loop, and no match names a file under one.
C10_IgnoredDirs ==
    \A c \in CallIds :
        LET cs == call[c]
        IN  /\ \A i \in 2..Len(cs.listed) : ~BelowIgnored(Rel(cs, cs.listed[i]) \o "/")
            /\ \A i \in 1..Len(cs.visited) : ~BelowIgnored(Rel(cs, cs.visited[i].path))
            /\ \A i \in 1..Len(cs.matches) : ~BelowIgnored(cs.matches[i].file)

\* a scan returned empty-handed from a tree whose only file, a matching
\* one, lies in an ignored directory two levels down
C10_Witness ==
    \E c \in CallIds :
        /\ call[c].status = "returned"
        /\ Len(fs.entries) = 1 /\ fs.entries[1].kind = "dir"
        /\ Len(fs.entries[1].entries) = 1
        /\ fs.entries[1].entries[1].kind = "dir"
        /\ fs.entries[1].entries[1].name \in IgnoredNames
        /\ fs.entries[1].entries[1].entries = <<AppTs(call[c].flagKey)>>
        /\ call[c].result[1].matches = <<>>
        /\ call[c].result[1].scannedFiles = 0 /\ call[c].result[1].skippedFiles = 0


\* the visited file a match names, and the text of the line it names
FileOf(cs, m) ==
    LET v == { i \in 1..Len(cs.visited) : Rel(cs, cs.visited[i].path) = m.file }
    IN  cs.visited[CHOOSE i \in v : TRUE]

LineText(cs, m) == FileOf(cs, m).entry.content[m.line]

\* the patterns, in profile order, that match the text
Hits(lang, key, text) ==
    { p \in 1..Len(flagCallPatterns(lang, key)) :
        RegexExec(flagCallPatterns(lang, key)[p], text, 0) >= 0 }

\* the files of visited whose scan is over and went through scanFile's loop
ScanOver(cs, i) ==
    /\ i < Len(cs.visited) \/ InFlight(cs) = 0
    /\ Recognised(cs.visited[i].entry) /\ ~Unreadable(cs.visited[i].entry)
    /\ cs.visited[i].entry.size <= MAX_FILE_SIZE
    /\ KeyCompiles(cs.flagKey)

\* C5  One match per line: the matches of one file have strictly increasing
\* line numbers (so no two share a line), every match holds the column at
\* which the first pattern, in profile order, that matches its line matches
\* it, and every line of a scanned file that some pattern matches has
\* exactly one match.
C5_OneMatchPerLine ==
    \A c \in CallIds :
        LET cs == call[c]
            ms == cs.matches
        IN  /\ \A i, j \in 1..Len(ms) :
                  (i < j /\ ms[i].file = ms[j].file) => ms[i].line < ms[j].line
            /\ \A i \in 1..Len(ms) :
                  LET hit == Hits(ms[i].language, cs.flagKey, LineText(cs, ms[i]))
                  IN  /\ hit # {}
                      /\ ms[i].column =
                           RegexExec(flagCallPatterns(ms[i].language, cs.flagKey)[Min(hit)],
                                     LineText(cs, ms[i]), 0)
            /\ \A i \in 1..Len(cs.visited) :
                  ScanOver(cs, i) =>
                     \A l \in 1..Len(cs.visited[i].entry.content) :
                        Hits(detectLanguage(cs.visited[i].entry.name), cs.flagKey,
                             cs.visited[i].entry.content[l]) # {}
                        => Cardinality({ k \in 1..Len(ms) :
                                           /\ ms[k].file = Rel(cs, cs.visited[i].path)
                                           /\ ms[k].line = l }) = 1

\* two matches in one file, the first on a line that two patterns match,
\* the later pattern further left than the earlier one
C5_Witness ==
    \E c \in CallIds :
        LET cs == call[c]
            ms == cs.matches
        IN  \E i, j \in 1..Len(ms) :
               /\ i < j /\ ms[i].file = ms[j].file
               /\ \E p, q \in Hits(ms[i].language, cs.flagKey, LineText(cs, ms[i])) :
                     /\ p < q
                     /\ RegexExec(flagCallPatterns(ms[i].language, cs.flagKey)[q],
                                  LineText(cs, ms[i]), 0) < ms[i].column

TestPath(path) == Includes(path, "test") \/ Includes(path, "spec")

ConfidenceTable(matchType, hasSdk, isTestPath) ==
    CASE matchType = "sdk_call" /\ hasSdk /\ ~isTestPath -> "high"
      [] matchType = "sdk_call" /\ ~(hasSdk /\ ~isTestPath) -> "medium"
      [] matchType = "string_literal" /\ hasSdk -> "medium"
      [] matchType = "string_literal" /\ ~hasSdk -> "low"
      [] matchType \in {"config", "test"} -> "low"

\* C6  Confidence scoring: every match holds the confidence the table gives
\* for its matchType, the SDK import of its file and the test path of its
\* file; config and test matches are low, and a string_literal match in a
\* file with an SDK import is medium, on a test path too.
C6_ConfidenceTable ==
    \A c \in CallIds :
        \A i \in 1..Len(call[c].matches) :
            LET m == call[c].matches[i]
                f == FileOf(call[c], m)
                hasSdk == hasSDKImport(f.entry.content, m.language)
            IN  /\ m.confidence = ConfidenceTable(m.matchType, hasSdk, TestPath(f.path))
                /\ m.matchType \in {"config", "test"} => m.confidence = "low"
                /\ (m.matchType = "string_literal" /\ hasSdk) => m.confidence = "medium"

C6_Witness ==
    \E c \in CallIds :
        \E i \in 1..Len(call[c].matches) :
            LET m == call[c].matches[i]
                f == FileOf(call[c], m)
            IN  /\ m.matchType = "string_literal" /\ m.confidence = "medium"
                /\ TestPath(f.path)
                /\ hasSDKImport(f.entry.content, m.language)

AccessorCall(text) == Includes(text, ".variation") \/ Includes(text, "Variation")

\* the segments of a path relative to the root: what its separators and
\* the dots of its names part
RECURSIVE Segments(_)
Segments(rel) ==
    LET cut == { i \in 1..Len(rel) : Char(rel, i) \in {"/", "."} }
    IN  IF cut = {} THEN {rel}
        ELSE {SubSeq(rel, 1, Min(cut) - 1)} \cup Segments(SubSeq(rel, Min(cut) + 1, Len(rel)))

\* a file of the tree is a test file when a segment of its path is a marker
TestFile(rel) == Segments(rel) \cap {"test", "tests", "spec", "specs", "__tests__"} # {}

\* C7  Confidence monotonicity: a match on a line with an accessor-style
\* call is high whenever its file has an SDK import and is not a test file
\* of the tree, and no match of a test file is high.
C7_Monotonicity ==
    \A c \in CallIds :
        \A i \in 1..Len(call[c].matches) :
            LET m == call[c].matches[i]
                f == FileOf(call[c], m)
            IN  /\ ( /\ AccessorCall(LineText(call[c], m))
                     /\ hasSDKImport(f.entry.content, m.language)
                     /\ ~TestFile(m.file) ) => m.confidence = "high"
                /\ TestFile(m.file) => m.confidence # "high"

Has(text, tokens) == \E t \in tokens : Includes(text, t)

MatchTypeTable(text) ==
    LET sdk == Has(text, {".variation", "Variation"})
        cfg == Has(text, {"config", "Config", "FLAG"})
        tst == Has(text, {"test", "Test", "spec"})
    IN  CASE sdk -> "sdk_call"
          [] ~sdk /\ cfg -> "config"
          [] ~sdk /\ ~cfg /\ tst -> "test"
          [] ~sdk /\ ~cfg /\ ~tst -> "string_literal"

CleanMatchRoot ==
    Dir("repo", "ok", <<Readable("app.ts", <<ImportTs, LineBool("OLD_FLAG")>>)>>)

\* C8  Match type: every match holds the type the priority table gives for
\* the text of its line, and the scan of the TypeScript file holding an SDK
\* import and client.boolVariation('OLD_FLAG', false) for OLD_FLAG returns
\* one match, sdk_call and high.
C8_MatchType ==
    \A c \in CallIds :
        /\ \A i \in 1..Len(call[c].matches) :
              call[c].matches[i].matchType = MatchTypeTable(LineText(call[c], call[c].matches[i]))
        /\ ( call[c].status = "returned" /\ call[c].flagKey = "OLD_FLAG" /\ fs = CleanMatchRoot )
           => /\ call[c].result[1].totalMatches = 1
              /\ call[c].result[1].matches[1].matchType = "sdk_call"
              /\ call[c].result[1].matches[1].confidence = "high"

C8_Witness ==
    \E c \in CallIds :
        /\ call[c].status = "returned" /\ call[c].flagKey = "OLD_FLAG" /\ fs = CleanMatchRoot
        /\ Includes(LineText(call[c], call[c].result[1].matches[1]), "FLAG")
        /\ call[c].result[1].matches[1].matchType = "sdk_call"

WeakLiteralRoot(k) == Dir("repo", "ok", <<Readable("x.py", <<LinePy(k)>>)>>)

WeakLiteral(cs) == cs.status = "returned" /\ fs = WeakLiteralRoot(cs.flagKey)

RegexMeta == {".", "*", "+", "?", "^", "$", "{", "}", "(", ")", "|", "[", "]", "\\"}

PlainKey(k) == \A i \in 1..Len(k) : Char(k, i) \notin RegexMeta \cup {SQ, DQ}

TokenFree(k) ==
    ~Has(k, {".variation", "Variation", "config", "Config", "FLAG", "test", "Test", "spec"})

AtUnknown(cs) == AtEntry(cs) /\ Entry(cs).kind = "file" /\ ~Recognised(Entry(cs))

\* C11  Unknown extension: the step the loop takes at a file that no
\* language profile recognises adds one to skippedFiles and nothing to
\* scannedFiles or matches and goes to the next entry; no scan awaits the
\* stat or the read of such a file, and no match names one.
C11_Step ==
    \A c \in CallIds :
        LET cs == call[c]
            cs2 == call'[c]
        IN  /\ (AtUnknown(cs) /\ cs2 # cs) =>
                  /\ cs2.skippedFiles = cs.skippedFiles + 1
                  /\ cs2.scannedFiles = cs.scannedFiles
                  /\ cs2.matches = cs.matches
                  /\ cs2.status = "running" /\ cs2.pc = "loop"
                  /\ Top(cs2).i = Top(cs).i + 1
            /\ (cs2.status = "running" /\ cs2.pc \in {"stat", "read"}) =>
                  Recognised(Entry(cs2))
            /\ \A i \in 1..Len(cs2.matches) :
                  detectLanguage(cs2.matches[i].file) # NoLanguage

C11_UnknownExtension == [][C11_Step]_vars

\* a scan returned that took a .md file holding the flag key, counted it
\* as skipped, and has matches, none of them in it
C11_Witness ==
    \E c \in CallIds :
        LET cs == call[c]
        IN  /\ cs.status = "returned"
            /\ \E i \in 1..Len(cs.visited) :
                  /\ cs.visited[i].entry.name = "README.md"
                  /\ Includes(cs.visited[i].entry.content[1], cs.flagKey)
                  /\ \A m \in 1..Len(cs.result[1].matches) :
                        cs.result[1].matches[m].file # Rel(cs, cs.visited[i].path)
            /\ cs.result[1].skippedFiles = 1
            /\ cs.result[1].totalMatches > 0

\* the scan awaits the stat of a file that stat will show above the ceiling
AtOversized(cs) ==
    /\ cs.status = "running" /\ cs.pc = "stat"
    /\ Entry(cs).stat = "ok" /\ Entry(cs).size > 1048576

\* the scan awaits the read of a readable file that is not above the ceiling
AtReadable(cs) ==
    /\ cs.status = "running" /\ cs.pc = "read"
    /\ Entry(cs).read = "ok" /\ Entry(cs).size <= 1048576

\* C12  Size ceiling: the step taken on the stat of a recognised file of
\* more than 1,048,576 bytes adds one to skippedFiles and nothing to
\* scannedFiles or matches, no scan awaits the read of such a file and no
\* match names one; the step taken on the read of a readable recognised
\* file of at most 1,048,576 bytes adds one to scannedFiles and nothing to
\* skippedFiles.
C12_Step ==
    \A c \in CallIds :
        LET cs == call[c]
            cs2 == call'[c]
        IN  /\ (AtOversized(cs) /\ cs2 # cs) =>
                  /\ cs2.skippedFiles = cs.skippedFiles + 1
                  /\ cs2.scannedFiles = cs.scannedFiles
                  /\ cs2.matches = cs.matches
                  /\ cs2.pc = "loop"
            /\ (cs2.status = "running" /\ cs2.pc = "read") => Entry(cs2).size <= 1048576
            /\ \A i \in 1..Len(cs2.matches) : FileOf(cs2, cs2.matches[i]).entry.size <= 1048576
            /\ (AtReadable(cs) /\ cs2 # cs) =>
                  /\ cs2.scannedFiles = cs.scannedFiles + 1
                  /\ cs2.skippedFiles = cs.skippedFiles

C12_SizeCeiling == [][C12_Step]_vars

\* the regular files of a tree in depth-first order, each directory that is
\* not ignored in full at the place of its entry, as paths below dir
RECURSIVE FilesInOrder(_, _)
FilesInOrder(entries, dir) ==
    IF entries = <<>> THEN <<>>
    ELSE LET e == Head(entries)
             here == IF e.kind = "file" THEN <<dir \o "/" \o e.name>>
                     ELSE IF e.kind = "dir" /\ e.name \notin IgnoredNames
                          THEN FilesInOrder(e.entries, dir \o "/" \o e.name)
                     ELSE <<>>
         IN  here \o FilesInOrder(Tail(entries), dir)

\* the traversal of the tree below the root of a scan
Traversal(cs) ==
    IF fs.kind = "dir" THEN FilesInOrder(fs.entries, cs.repoPath) ELSE <<>>

\* the place of a match's file in the traversal
PlaceOf(cs, m) ==
    CHOOSE p \in 1..Len(Traversal(cs)) : Rel(cs, Traversal(cs)[p]) = m.file

\* C13  Match ordering: the files a scan has taken are a prefix of the
\* depth-first traversal of the tree in listing order, all of it when the
\* scan returns; in matches, and in the matches returned, a match of a file
\* earlier in the traversal precedes every match of a later file, and the
\* matches of one file are in ascending line number.
C13_MatchOrdering ==
    \A c \in CallIds :
        LET cs == call[c]
            order == Traversal(cs)
            Sorted(ms) ==
                \A i, j \in 1..Len(ms) :
                    i < j => \/ PlaceOf(cs, ms[i]) < PlaceOf(cs, ms[j])
                             \/ /\ ms[i].file = ms[j].file
                                /\ ms[i].line < ms[j].line
        IN  cs.status \in {"running", "returned"} =>
               /\ Len(cs.visited) <= Len(order)
               /\ \A i \in 1..Len(cs.visited) : cs.visited[i].path = order[i]
               /\ Sorted(cs.matches)
               /\ cs.status = "returned" =>
                     /\ Len(cs.visited) = Len(order)
                     /\ Sorted(cs.result[1].matches)

\* matches returned in an order that is not the order of their paths: line
\* 1 of x.py, then two lines of src/app.ts, src listed after x.py
C13_Witness ==
    \E c \in CallIds :
        /\ call[c].status = "returned"
        /\ \E i, j \in 1..Len(call[c].result[1].matches) :
              /\ i < j
              /\ call[c].result[1].matches[i].file = "x.py"
              /\ call[c].result[1].matches[j].file = "src/app.ts"
              /\ call[c].result[1].matches[i].line = 1
              /\ call[c].result[1].matches[j].line = 2
        /\ \E i, j \in 1..Len(call[c].result[1].matches) :
              /\ i < j
              /\ call[c].result[1].matches[i].file = "src/app.ts"
              /\ call[c].result[1].matches[j].file = "src/app.ts"

Over(cs) == cs.status \in {"returned", "rejected"}

SameRequest(a, b) ==
    a.repoPath = b.repoPath /\ a.flagKey = b.flagKey /\ a.provider = b.provider

\* C14  Determinism: two scans of the unchanged tree with the same
\* repoPath, flagKey and provider, one after the other or not, end alike,
\* and when they return their ScanResults (scanDurationMs apart) are equal.
C14_Determinism ==
    \A c, d \in CallIds :
        (Over(call[c]) /\ Over(call[d]) /\ SameRequest(call[c], call[d])) =>
            /\ call[c].status = call[d].status
            /\ call[c].result = call[d].result

\* two scans with the same request, the second made after the first
\* returned, returned results with matches and skipped files
C14_Witness ==
    /\ call[1].status = "returned" /\ call[2].status = "returned"
    /\ SameRequest(call[1], call[2])
    /\ call[1].alone /\ call[2].alone
    /\ call[2].result[1].totalMatches > 0
    /\ call[2].result[1].skippedFiles > 0

\* what a scan of the tree gathers when nothing else runs: the matches in
\* traversal order and the two counters
RECURSIVE Tally(_, _, _, _)
Tally(entries, dir, repoPath, key) ==
    IF entries = <<>> THEN [matches |-> <<>>, scanned |-> 0, skipped |-> 0]
    ELSE LET e == Head(entries)
             p == dir \o "/" \o e.name
             rest == Tally(Tail(entries), dir, repoPath, key)
             here ==
                 IF e.kind = "dir" /\ e.name \notin IgnoredNames
                 THEN Tally(e.entries, p, repoPath, key)
                 ELSE IF e.kind # "file"
                 THEN [matches |-> <<>>, scanned |-> 0, skipped |-> 0]
                 ELSE IF /\ Recognised(e) /\ e.stat = "ok" /\ e.size <= 1048576
                         /\ e.read = "ok" /\ KeyCompiles(key)
                 THEN [matches |-> scanFile(p, e.content, key, detectLanguage(e.name),
                                            repoPath),
                       scanned |-> 1, skipped |-> 0]
                 ELSE [matches |-> <<>>, scanned |-> 0, skipped |-> 1]
         IN  [matches |-> here.matches \o rest.matches,
              scanned |-> here.scanned + rest.scanned,
              skipped |-> here.skipped + rest.skipped]

\* C15  Scan isolation: a scan that returns, whatever another invocation
\* on the shared codeScanner did between its awaits, returns the matches
\* and the counters of a scan of the tree run alone with its own flag key.
C15_Isolation ==
    \A c \in CallIds :
        call[c].status = "returned" =>
            LET alone == Tally(fs.entries, call[c].repoPath, call[c].repoPath,
                               call[c].flagKey)
            IN  /\ call[c].result[1].matches = alone.matches
                /\ call[c].result[1].totalMatches = Len(alone.matches)
                /\ call[c].result[1].scannedFiles = alone.scanned
                /\ call[c].result[1].skippedFiles = alone.skipped

\* two scans with different flag keys, the second made while the first
\* was running: the first returned matches, the second none and every
\* recognised file skipped
C15_Witness ==
    /\ call[1].status = "returned" /\ call[2].status = "returned"
    /\ ~call[2].alone
    /\ call[1].flagKey # call[2].flagKey
    /\ call[1].result[1].totalMatches > 0
    /\ call[1].result[1].scannedFiles > 0
    /\ call[2].result[1].totalMatches = 0
    /\ call[2].result[1].skippedFiles >= call[1].result[1].scannedFiles

\* the profiles one of whose extensions ends the path, the extensions
\* written out
ProfilesOf(path) ==
    { l \in {"typescript", "python", "java", "go"} :
        \E x \in (CASE l = "typescript" -> {".ts", ".tsx", ".js", ".jsx"}
                    [] l = "python" -> {".py"}
                    [] l = "java" -> {".java"}
                    [] l = "go" -> {".go"}) : EndsWith(path, x) }

\* C16  detectLanguage: at most one profile has an extension that ends a
\* path; detectLanguage returns that profile's language, and null when
\* there is none: typescript for .ts, .tsx, .js and .jsx, python for .py,
\* java for .java, go for .go, null for .txt and .md.
C16_DetectLanguage ==
    (probe.fn = "detectLanguage") =>
        \A i \in 1..Len(probe.out) :
            LET lang == probe.out[i].value
            IN  /\ ~probe.out[i].threw
                /\ Cardinality(ProfilesOf(probe.path)) <= 1
                /\ ProfilesOf(probe.path) = {} => lang = "null"
                /\ ProfilesOf(probe.path) # {} => lang \in ProfilesOf(probe.path)
                /\ probe.path \in {"test.ts", "test.tsx", "test.js", "test.jsx"}
                     => lang = "typescript"
                /\ probe.path = "test.py" => lang = "python"
                /\ probe.path = "Test.java" => lang = "java"
                /\ probe.path = "test.go" => lang = "go"
                /\ probe.path \in {"test.txt", "README.md"} => lang = "null"

\* detectLanguage returned null for a path that holds an extension of a
\* profile but does not end in one
C16_Witness ==
    /\ probe.fn = "detectLanguage" /\ probe.path = "a.ts.md"
    /\ Len(probe.out) > 0 /\ probe.out[1].value = "null"

\* C17  hasSDKImport: a call returns true exactly when an SDK-import
\* pattern of the language matches somewhere in the content, returns false
\* and does not throw for a language that has no profile, and a repeated
\* call with the same arguments has the same outcome.
C17_HasSDKImport ==
    (probe.fn = "hasSDKImport") =>
        \A i \in 1..Len(probe.out) :
            /\ ~probe.out[i].threw
            /\ probe.language \notin {"typescript", "python", "java", "go"}
                 => probe.out[i].value = FALSE
            /\ probe.language \in {"typescript", "python", "java", "go"}
                 => probe.out[i].value =
                      (\E r \in 1..Len(sdkImports(probe.language)) :
                          \E l \in 1..Len(probe.content) :
                             RegexTest(sdkImports(probe.language)[r], probe.content[l]))
            /\ probe.out[i] = probe.out[1]

\* the atoms match the text at the zero-based offset column
StartsAt(atoms, text, column) ==
    /\ column + Len(atoms) <= Len(text)
    /\ \A j \in 1..Len(atoms) : AtomMatches(atoms[j], Char(text, column + j))

\* C18  ScanMatch positions: every match names, by its path relative to
\* the scanned root, a file the scan took; its line is between 1 and the
\* number of lines of that file; its column is at least 0 and less than
\* the length of that line, and is the leftmost offset at which the first
\* pattern that matches the line matches it.
C18_Positions ==
    \A c \in CallIds :
        \A i \in 1..Len(call[c].matches) :
            LET m == call[c].matches[i]
                cs == call[c]
                pats == flagCallPatterns(m.language, cs.flagKey)
            IN  /\ Char(m.file, 1) # "/"
                /\ \E v \in 1..Len(cs.visited) :
                      /\ cs.visited[v].path = cs.repoPath \o "/" \o m.file
                      /\ 1 <= m.line /\ m.line <= Len(cs.visited[v].entry.content)
                      /\ LET text == cs.visited[v].entry.content[m.line]
                             at == [p \in 1..Len(pats) |->
                                      { k \in 0..(Len(text) - 1) :
                                          StartsAt(pats[p][1], text, k) }]
                         IN  /\ 0 <= m.column /\ m.column < Len(text)
                             /\ \E p \in 1..Len(pats) :
                                   /\ m.column \in at[p]
                                   /\ \A k \in at[p] : m.column <= k
                                   /\ \A q \in 1..(p - 1) : at[q] = {}

\* a match on the last line of a file of a subdirectory
C18_Witness ==
    \E c \in CallIds :
        \E i \in 1..Len(call[c].matches) :
            LET m == call[c].matches[i]
            IN  /\ m.file = "src/app.ts"
                /\ m.line = 3 /\ m.line = Len(FileOf(call[c], m).entry.content)
                /\ m.column = 10
                /\ SubSeq(LineText(call[c], m), m.column + 2,
                          m.column + 1 + Len(call[c].flagKey)) = call[c].flagKey

\* the entries of the audit log with this action and repository
EntriesOf(action, repo) ==
    { e \in 1..Len(job.audit) : job.audit[e].action = action /\ job.audit[e].repo = repo }

\* scanRepositories is over
ScanJobOver == job.pc \notin {"none", "mkdir", "clone", "scan", "auditOk", "auditFail",
                              "update", "cleanup", "catch"}

\* C19  Audit logging: when the background scan of a request is over, the
\* audit log holds, for every repository of the request, exactly one entry
\* with action scan, whose success flag is true exactly when a ScanResult
\* of that repository is in the session's stored scanResults; when the PR
\* request, the only one made, has been answered, it holds for every result
\* a PR was attempted for exactly one entry with action create_pr, whose success flag is true
\* exactly when a PR URL was recorded for it.
C19_AuditLogging ==
    /\ ScanJobOver =>
          \A i \in 1..Len(job.repos) :
              /\ Cardinality(EntriesOf("scan", job.repos[i])) = 1
              /\ \A e \in EntriesOf("scan", job.repos[i]) :
                    job.audit[e].success
                      = (\E r \in 1..Len(job.session.scanResults) :
                            job.session.scanResults[r].req = i)
    /\ \A h \in Handlers :
          (job.pr[h].pc = "responded" /\ \A g \in Handlers \ {h} : job.pr[g].pc = "none") =>
              \A n \in job.pr[h].tried :
                  LET result == job.pr[h].results[n]
                  IN  /\ Cardinality(EntriesOf("create_pr", result.repo)) = 1
                      /\ \A e \in EntriesOf("create_pr", result.repo) :
                            job.audit[e].success
                              = (\E u \in 1..Len(job.pr[h].prUrls) :
                                    job.pr[h].prUrls[u] = result.req)

\* the quote characters of string literals in the language
QuotesOf(lang) == IF lang = "typescript" THEN {"'", "\"", BT}
                  ELSE IF lang = "python" THEN {"'", "\""}
                  ELSE {"\""}

\* the text holds the key, character for character, between two quotes
HoldsQuoted(text, key, quotes) ==
    \E i \in 1..(Len(text) - Len(key) - 1) :
        /\ Char(text, i) \in quotes
        /\ SubSeq(text, i + 1, i + Len(key)) = key
        /\ Char(text, i + Len(key) + 1) \in quotes

\* C20  Literal flag-key matching: for every flag key and language,
\* building the patterns does not throw, and a line is matched by some
\* pattern exactly when it holds the key verbatim between quote characters
\* of the language; my.flag does not match "myXflag".
C20_LiteralKey ==
    (probe.fn = "flagCallPatterns") =>
        \A i \in 1..Len(probe.out) :
            /\ ~probe.out[i].threw
            /\ probe.out[i].value
                 = HoldsQuoted(probe.line, probe.key, QuotesOf(probe.language))
            /\ (probe.key = "my.flag" /\ probe.line = "x = \"myXflag\"")
                 => ~probe.out[i].value

\* C21  Test-path heuristic on latest: an sdk_call match in a file with an
\* SDK import whose path holds the substring latest, and no test or spec
\* marker of its own, is high.
C21_Latest ==
    \A c \in CallIds :
        \A i \in 1..Len(call[c].matches) :
            LET m == call[c].matches[i]
                f == FileOf(call[c], m)
            IN  ( /\ Includes(m.file, "latest") /\ ~TestFile(m.file)
                  /\ m.matchType = "sdk_call"
                  /\ hasSDKImport(f.entry.content, m.language) )
                => m.confidence = "high"

\* C22  hasSdk is per file: two matches of one file with the same matchType
\* have the same confidence, wherever the import line stands.
C22_PerFileSdk ==
    \A c \in CallIds :
        \A i, j \in 1..Len(call[c].matches) :
            LET a == call[c].matches[i]
                b == call[c].matches[j]
            IN  (a.file = b.file /\ a.matchType = b.matchType)
                => a.confidence = b.confidence

\* a file with an sdk_call before its import line and another after it
C22_Witness ==
    \E c \in CallIds :
        /\ call[c].status = "returned"
        /\ \E i, j \in 1..Len(call[c].matches) :
            LET a == call[c].matches[i]
                b == call[c].matches[j]
                content == FileOf(call[c], a).entry.content
            IN  /\ a.file = b.file /\ a.matchType = "sdk_call" /\ b.matchType = "sdk_call"
                /\ \E n \in 1..Len(content) :
                    /\ a.line < n /\ n < b.line
                    /\ hasSDKImport(<<content[n]>>, a.language)
                    /\ ~hasSDKImport(SubSeq(content, 1, a.line), a.language)

\* the lines first..last of a content, 1-based, joined by newlines
RECURSIVE Window(_, _, _)
Window(content, first, last) ==
    IF first = last THEN content[first]
    ELSE content[first] \o "\n" \o Window(content, first + 1, last)

\* C23  Snippet window: the snippet of a match on line L of a file of n lines
\* is the lines max(1, L-1)..min(n, L+1) joined by newlines; it holds the
\* match line, spans 1 to 3 lines, and 2 when the match is on the first or
\* last line of a file of at least 2 lines.
C23_Snippet ==
    \A c \in CallIds :
        \A i \in 1..Len(call[c].matches) :
            LET m == call[c].matches[i]
                content == FileOf(call[c], m).entry.content
                n == Len(content)
                first == IF m.line > 1 THEN m.line - 1 ELSE 1
                last == IF m.line < n THEN m.line + 1 ELSE n
                span == last - first + 1
            IN  /\ m.snippet = Window(content, first, last)
                /\ first <= m.line /\ m.line <= last
                /\ span \in 1..3
                /\ (n >= 2 /\ m.line \in {1, n}) => span = 2
                /\ (n >= 3 /\ m.line \notin {1, n}) => span = 3

\* matches on the first, a middle and the last line of a file of three lines
C23_Witness ==
    \E c \in CallIds :
        /\ call[c].status = "returned"
        /\ Len(call[c].matches) = 3
        /\ \A i \in 1..3 :
            /\ call[c].matches[i].line = i
            /\ call[c].matches[i].file = call[c].matches[1].file
        /\ Len(FileOf(call[c], call[c].matches[1]).entry.content) = 3

\* C24  Checkout-location independence: a scan that returns has the matches,
\* confidences included, that a scan of the same tree gathers when the tree
\* is checked out under any other root path.
C24_LocationIndependence ==
    \A c \in CallIds :
        (call[c].status = "returned" /\ fs.kind = "dir") =>
            \A other \in {RepoPath, TestRepoPath} :
                call[c].result[1].matches =
                    Tally(fs.entries, other, other, call[c].flagKey).matches

\* the directories of a tree that are not ignored, in depth-first order
RECURSIVE DirsInOrder(_, _)
DirsInOrder(entries, dir) ==
    IF entries = <<>> THEN <<>>
    ELSE LET e == Head(entries)
             here == IF e.kind = "dir" /\ e.name \notin IgnoredNames
                     THEN <<dir \o "/" \o e.name>>
                          \o DirsInOrder(e.entries, dir \o "/" \o e.name)
                     ELSE <<>>
         IN  here \o DirsInOrder(Tail(entries), dir)

\* C25  Scan termination: a scan of a tree whose root can be listed, once
\* over, has listed every directory that is not ignored exactly once and
\* taken every regular file below them exactly once; entries that are
\* neither are not taken.
C25_VisitsAll ==
    \A c \in CallIds :
        (Over(call[c]) /\ readdirOk(fs)) =>
            /\ call[c].listed =
                   <<call[c].repoPath>> \o DirsInOrder(fs.entries, call[c].repoPath)
            /\ [i \in 1..Len(call[c].visited) |-> call[c].visited[i].path]
                   = Traversal(call[c])

\* C26  Session outcome: the session starts scanning and leaves that status;
\* when the background scan is over the status is ready if a ScanResult
\* was gathered for at least one repository and failed if for none, and
\* once the work directory was made every repository of the request was
\* taken up, whatever failed for the ones before it.
C26_SessionOutcome ==
    /\ [](ScanJobOver =>
            /\ job.session.status \in {"ready", "failed"}
            /\ job.session.status = "ready" <=> Len(job.allResults) > 0
            /\ job.workDir # "none" => job.i = Len(job.repos))
    /\ <>(job.session.status # "scanning")

\* the request read a session that is ready and has scan results
GateOpen(p) == p.seen = "ready" /\ Len(p.results) > 0

\* audit entries with action create_pr
PrEntries(audit) == { e \in 1..Len(audit) : audit[e].action = "create_pr" }

C27_Step ==
    /\ \A h \in Handlers :
          /\ (job.pr[h].pc = "none" /\ job'.pr[h].response \in {400, 404}) =>
                /\ job'.branches = job.branches /\ job'.prs = job.prs
                /\ job'.audit = job.audit /\ job'.session = job.session
          /\ job'.pr[h].response \in {400, 404} =>
                /\ job.pr[h].pc \in {"none", "responded"}
                /\ job'.pr[h].seen = "missing" <=> job'.pr[h].response = 404
                /\ ~GateOpen(job'.pr[h])
          /\ job.pr[h].pc = "responded" => job'.pr[h] = job.pr[h]
    /\ ( \/ job'.branches # job.branches \/ job'.prs # job.prs
         \/ PrEntries(job'.audit) # PrEntries(job.audit)
         \/ job'.session.prUrl # job.session.prUrl
         \/ (job'.session.status # job.session.status
               /\ job'.session.status = "pr_created") )
       => \E h \in Handlers : job'.pr[h] # job.pr[h] /\ GateOpen(job.pr[h])

\* C27  PR creation is gated on ready: a request answered 404 (no session
\* with its id) or 400 (the status it read is not ready, or the results are
\* empty) is answered at the gate, with no branch, PR, audit entry or
\* session update made, and does nothing afterwards; every step that makes
\* a branch or a PR, writes a create_pr audit entry or updates the session
\* is a step of a request that read the status ready and results that are
\* not empty.
C27_Gate == [][C27_Step]_vars

\* a request turned away while the session was scanning, and the session
\* later ready with the PRs made by the other request
C27_Witness ==
    \E h, g \in Handlers :
        /\ job.pr[h].response = 400 /\ job.pr[h].seen = "scanning"
        /\ job.pr[g].response = 200 /\ GateOpen(job.pr[g])
        /\ job.prs # {} /\ \A x \in job.prs : x.by = g

\* C28  No duplicate PRs: of the pull requests made for a session, no two
\* are for the same scan result.
C28_NoDuplicatePRs ==
    job.pc # "none" =>
        \A x, y \in job.prs : x.req = y.req => x = y

\* C29  A session whose status is pr_created has at least one PR URL in
\* prUrl.
C29_PrCreatedHasUrl ==
    (job.pc # "none" /\ job.session.status = "pr_created") => Len(job.session.prUrl) > 0

\* C30  Work-directory cleanup: once the work directory was made, rm of it
\* is called, and has been called when scanRepositories settles, on every
\* path; the step that calls rm, failing or not, leaves the session row as
\* it was.
C30_Cleanup ==
    /\ [](job.workDir = "made" => <>job.rmTried)
    /\ []((job.pc \in {"catch", "idle"} /\ job.workDir # "none") => job.rmTried)
    /\ [][job'.rmTried # job.rmTried => job'.session = job.session]_vars

\* rm failed after the session was set ready: the directory is still there
\* and the status is as written
C30_Witness ==
    /\ job.pc = "idle" /\ job.rmTried /\ job.workDir = "made"
    /\ job.session.status = "ready"

=============================================================================
